---------------------------- MODULE Spec2Model ----------------------------
(***************************************************************************)
(* A model of split_bill_bot.py: the per-chat bill session registry, the   *)
(* python-telegram-bot ConversationHandler that walks a chat through the   *)
(* setup dialog, the always-available commands, the mismatch resolution    *)
(* buttons and the cent allocator.                                         *)
(*                                                                         *)
(* Numbers.  Python floats are modelled as exact rationals <<n, d>> in     *)
(* lowest terms with d > 0.  The amounts a user types are multiples of     *)
(* 1/Grid of a currency unit with Grid a power of two, so that every       *)
(* typed amount and every sum of typed amounts is a double without         *)
(* rounding error and no comparison of the model sits on a boundary that   *)
(* the 2^-53 relative error of a double could move.                        *)
(***************************************************************************)
EXTENDS Integers, Sequences, FiniteSets, TLC

(***************************************************************************)
(* Bounds of the model.                                                    *)
(***************************************************************************)
\* typed amounts are k/Grid for k in -1..MaxAmount; a subtotal stays within (MaxAmount+1)/Grid
MaxAmount == 1
\* typed percentages are 50*j for j in 0..MaxPct (and one negative value)
MaxPct == 1
\* typed head counts are 0..MaxPeople
MaxPeople == 1
\* a session tracks at most MaxMsgs prompt messages before a cleanup
MaxMsgs == 1
\* a Scale resolution runs only if the scaled subtotals are multiples of 1/(Grid*MaxDen)
MaxDen == 1
\* allocate_cents alone: shares are k/Grid for k in 0..MaxShare
MaxShare == 3
\* allocate_cents alone: at most MaxLen shares
MaxLen == 2

\* delete_setup_messages alone: a session tracks up to MaxTracked messages
MaxTracked == 3

\* denominator of the typed amounts: 1/128 of a currency unit
Grid == 2^7

(***************************************************************************)
(* Exact rational arithmetic standing for Python's float arithmetic.       *)
(***************************************************************************)
RECURSIVE GCD(_, _)
GCD(a, b) == IF b = 0 THEN a ELSE GCD(b, a % b)

IAbs(n) == IF n < 0 THEN -n ELSE n

\* the rational n/d (d # 0) in lowest terms with a positive denominator
Rat(n, d) ==
    LET s == IF d < 0 THEN -1 ELSE 1
        g == GCD(IAbs(n), IAbs(d))
    IN  <<(s * n) \div g, (s * d) \div g>>

Zero == <<0, 1>>
FromInt(n) == <<n, 1>>

RAdd(x, y) == Rat(x[1] * y[2] + y[1] * x[2], x[2] * y[2])
RSub(x, y) == Rat(x[1] * y[2] - y[1] * x[2], x[2] * y[2])
RMul(x, y) == Rat(x[1] * y[1], x[2] * y[2])
\* x / y for y # 0
RDiv(x, y) == Rat(x[1] * y[2], x[2] * y[1])
RLt(x, y) == x[1] * y[2] < y[1] * x[2]
RLe(x, y) == x[1] * y[2] <= y[1] * x[2]
\* abs(x)
RAbs(x) == <<IAbs(x[1]), x[2]>>

\* int(math.floor(x)): the largest integer <= x
Floor(x) == x[1] \div x[2]

\* int(round(x)): Python 3 rounds to the nearest integer, ties to even
Round(x) ==
    LET f == Floor(x)
        twice == 2 * (x[1] - f * x[2])      \* 2 * frac(x) * x[2]
    IN  IF twice < x[2] THEN f
        ELSE IF twice > x[2] THEN f + 1
        ELSE IF f % 2 = 0 THEN f ELSE f + 1

RECURSIVE SumInts(_)
SumInts(s) == IF s = <<>> THEN 0 ELSE Head(s) + SumInts(Tail(s))

\* sum(...) over a sequence of floats, left to right from 0
RECURSIVE SumRats(_)
SumRats(s) == IF s = <<>> THEN Zero ELSE RAdd(SumRats(SubSeq(s, 1, Len(s) - 1)), s[Len(s)])

(***************************************************************************)
(* Pure helpers of the bot.                                                *)
(***************************************************************************)
\* fmt_money: "<code> <amount:.2f>", the amount rounded to whole cents
fmt_money(code, amount) == <<code, Round(RMul(amount, FromInt(100)))>>

\* default tolerance of close_enough
tol == Rat(1, 100)

\* fault model: the tolerance dropped, only an exact match is "close enough"
close_enough_exact(a, b) == a = b

close_enough(a, b) == RLe(RAbs(RSub(a, b)), tol)

\* fault model: the whole remainder goes to the first entry
AllocLoopToFirst(cents, diff, idx) ==
    IF diff > 0 /\ idx <= Len(cents) THEN [cents EXCEPT ![idx] = @ + diff] ELSE cents

\* fault model: the remainder goes to the last diff entries
AllocLoopFromEnd(cents, diff, idx) ==
    [i \in 1..Len(cents) |-> IF i > Len(cents) - diff THEN cents[i] + 1 ELSE cents[i]]

\* the while loop of allocate_cents: one cent to each of the first diff entries
RECURSIVE AllocLoop(_, _, _)
AllocLoop(cents, diff, idx) ==
    IF diff > 0 /\ idx <= Len(cents)
    THEN AllocLoop([cents EXCEPT ![idx] = @ + 1], diff - 1, idx + 1)
    ELSE cents

\* the integer cents allocate_cents holds when it returns
AllocCents(shares, grand_total) ==
    LET cents == [i \in 1..Len(shares) |-> Floor(RMul(shares[i], FromInt(100)))]
        diff == Round(RMul(grand_total, FromInt(100))) - SumInts(cents)
    IN  AllocLoop(cents, diff, 1)

allocate_cents(shares, grand_total) ==
    LET cents == AllocCents(shares, grand_total)
    IN  [i \in 1..Len(cents) |-> Rat(cents[i], 100)]

(***************************************************************************)
(* State.                                                                  *)
(***************************************************************************)
VARIABLES
    SESSIONS,   \* chat_id -> session: the registry, a dict whose keys come and go
    conv,       \* chat_id -> the ConversationHandler's state of that chat
    keyboards,  \* chat_id -> the callback_data of the inline buttons sent to that chat
    reply,      \* what the handler of the last update answered (NoReply: no handler took it)
    deleted,    \* the calls of bot.delete_message that handler made, in order: <<id, it raised>>
    alloc,      \* the call of allocate_cents that handler made: arguments and result
    script      \* chat_id -> what the users of that chat do, fixed from the start

vars == <<SESSIONS, conv, keyboards, reply, deleted, alloc, script>>

\* one chat with one user: the registry and the conversation are keyed by it
Chats == {1}

\* The users of a chat either walk through the setup dialog and name one person
\* ("dialog"), or stay at the menu and name two ("entries").  Every handler runs in
\* both; the model explores the two kinds of chat, not their product.
Scripts == {"dialog", "entries"}

\* ConversationHandler.END: no conversation running
END == "END"

\* finalized_msg_id: None
None == 0

\* what a user types: a word, a decimal k/Grid with a fractional part, or an integer literal
Word == [kind |-> "word", val |-> 0]
Dec(k) == [kind |-> "dec", val |-> k]
Num(n) == [kind |-> "int", val |-> n]

\* float(text) raises ValueError
FloatRaises(t) == t.kind = "word"
\* float(text) where it does not raise
Float(t) == IF t.kind = "int" THEN FromInt(t.val) ELSE Rat(t.val, Grid)
\* int(text) raises ValueError: a word, or a decimal point in the text
IntRaises(t) == t.kind # "int"
\* int(text) where it does not raise
IntOf(t) == t.val

AmountTexts == {Word} \cup {Dec(k) : k \in -1..MaxAmount}
PercentTexts == {Word, Dec(-1)} \cup {Num(50 * j) : j \in 0..MaxPct}
CountTexts == {Word, Dec(1)} \cup {Num(n) : n \in 0..MaxPeople}
PersonNames(c) == IF script[c] = "entries" THEN {"Alice", "Bob"} ELSE {"Alice"}

\* context.args of a command: none, or as many as the command reads
NoArgs == <<>>
NameAmountArgs(c) == {NoArgs} \cup {<<name, t>> : name \in PersonNames(c), t \in AmountTexts}
NameArgs(c) == {NoArgs} \cup {<<name>> : name \in PersonNames(c)}
AmountArgs == {NoArgs} \cup {<<t>> : t \in AmountTexts}

\* What a handler answers: which of the bot's texts it is, the amounts the text
\* echoes through fmt_money, its per-person lines, and the buttons under it
Reply(kind, money, people, buttons) ==
    [kind |-> kind, money |-> money, people |-> people, buttons |-> buttons]
Say(kind) == Reply(kind, <<>>, <<>>, {})
NoReply == Say("none")

MenuButtons == {"START_FLOW", "HELP_FLOW"}
CurrencyButtons == {"SGD", "MYR"}
FixButtons == {"SCALE_FIX", "EDIT_FIX", "TOTAL_TO_SUM"}

NoCall == [shares |-> <<>>, grand_total |-> Zero, out |-> <<>>]

(***************************************************************************)
(* The session registry.                                                   *)
(***************************************************************************)
NewSession ==
    [currency |-> "SGD", total |-> Zero, gst |-> Zero, service |-> Zero,
     num_people |-> 0, people |-> <<>>, messages |-> <<>>, finalized_msg_id |-> None]

\* SESSIONS.get(chat_id) is truthy
HasSession(S, c) == c \in DOMAIN S

\* the registry after get_session(chat_id); the session returned is the result's [c]
get_session(S, c) == IF c \in DOMAIN S THEN S ELSE (c :> NewSession) @@ S

\* SESSIONS.pop(chat_id, None)
Pop(S, c) == [d \in (DOMAIN S) \ {c} |-> S[d]]

Range(s) == {s[i] : i \in 1..Len(s)}

\* The transport numbers each message it sends; the bot only stores and compares
\* the ids.  The id of a new message is the least one the session does not hold.
FreshId(s) ==
    LET used == Range(s.messages) \cup {s.finalized_msg_id}
    IN  CHOOSE i \in 1..(Len(s.messages) + 2) :
            i \notin used /\ \A j \in 1..(i - 1) : j \in used

\* the registry after send_and_track(update, chat_id, ...)
send_and_track(S, c) ==
    LET S1 == get_session(S, c)
    IN  [S1 EXCEPT ![c].messages = Append(@, FreshId(S1[c]))]

\* fault model: the breakdown's id is put on the list of deletions as well
ToDeleteBreakdownToo(s, keep_ids) ==
    s.messages \o (IF s.finalized_msg_id # None THEN <<s.finalized_msg_id>> ELSE <<>>)

\* to_delete of delete_setup_messages: the ids bot.delete_message is called with
ToDelete(s, keep_ids) == SelectSeq(s.messages, LAMBDA mid : mid \notin keep_ids)

\* fault model: delete_message is called with no try/except round it
SwallowsNothing(mid) == FALSE

\* except Exception as e: logger.debug(...): a call that raises is caught and logged
Swallows(mid) == TRUE

\* the for loop of delete_setup_messages while the transport refuses the ids in
\* fails: the calls made so far, and whether an exception left the loop
RECURSIVE DeleteLoop(_, _, _)
DeleteLoop(to_delete, fails, calls) ==
    IF to_delete = <<>> THEN [calls |-> calls, raised |-> FALSE]
    ELSE LET mid == Head(to_delete)
             made == Append(calls, <<mid, mid \in fails>>)
         IN  IF mid \in fails /\ ~Swallows(mid)
             THEN [calls |-> made, raised |-> TRUE]
             ELSE DeleteLoop(Tail(to_delete), fails, made)

\* a run of delete_setup_messages over the session s
DeleteRun(s, keep_ids, fails) == DeleteLoop(ToDelete(s, keep_ids), fails, <<>>)

\* the registry after delete_setup_messages(context, chat_id, keep_ids): the last
\* line is reached only if no exception left the loop
delete_setup_messages(S, c, keep_ids, fails) ==
    LET S1 == get_session(S, c)
    IN  IF DeleteRun(S1[c], keep_ids, fails).raised THEN S1
        ELSE [S1 EXCEPT ![c].messages = SelectSeq(@, LAMBDA mid : mid \in keep_ids)]

\* the people dict: a sequence of <<name, subtotal>> in insertion order
Names(p) == {p[i][1] : i \in 1..Len(p)}
Index(p, name) == CHOOSE i \in 1..Len(p) : p[i][1] = name
\* people.get(name, 0.0)
PGet(p, name) == IF name \in Names(p) THEN p[Index(p, name)][2] ELSE Zero
\* people[name] = v
PSet(p, name, v) ==
    IF name \in Names(p) THEN [p EXCEPT ![Index(p, name)] = <<name, v>>]
    ELSE Append(p, <<name, v>>)
\* people.pop(name)
PPop(p, name) == SelectSeq(p, LAMBDA e : e[1] # name)
\* [a for _, a in people.items()]
Amounts(p) == [i \in 1..Len(p) |-> p[i][2]]

(***************************************************************************)
(* What every handler leaves behind for the observer.                      *)
(***************************************************************************)
\* a handler that tracks one more message runs only below the cap on tracked messages
CanTrack(S, c) == c \notin DOMAIN S \/ Len(S[c].messages) < MaxMsgs

\* a button can be pressed once a message carrying it was sent; the bot's deletions
\* of such a message may fail (line 61), so a keyboard once sent stays usable
Offered(c, data) == data \in keyboards[c]

\* the handler's answer and the calls it made, for a handler that deletes nothing
\* and allocates nothing
Out(c, r) ==
    /\ reply' = r
    /\ keyboards' = [keyboards EXCEPT ![c] = @ \cup r.buttons]
    /\ deleted' = <<>>
    /\ alloc' = NoCall
    /\ UNCHANGED script


(***************************************************************************)
(* /start, the menu and the setup dialog (the ConversationHandler).        *)
(***************************************************************************)
\* the registry after start(): a fresh session holding the id of the menu message
StartSession(S, c) == send_and_track(get_session(Pop(S, c), c), c)

\* entry point of the conversation: taken only while no conversation runs
start(c) ==
    /\ conv[c] = END
    /\ SESSIONS' = StartSession(SESSIONS, c)
    /\ conv' = [conv EXCEPT ![c] = "MENU"]
    /\ Out(c, Reply("menu", <<>>, <<>>, MenuButtons))

\* fault model: the start choice goes past the currency question
MenuNextSkips(data) == IF data = "START_FLOW" THEN "TOTAL" ELSE "MENU"

\* the state main_menu_cb returns
MenuNext(data) == IF data = "START_FLOW" THEN "CURRENCY" ELSE "MENU"

main_menu_cb(c, data) ==
    /\ conv[c] = "MENU"
    /\ script[c] = "dialog"
    /\ Offered(c, data)
    /\ conv' = [conv EXCEPT ![c] = MenuNext(data)]
    /\ Out(c, IF data = "START_FLOW"
           THEN Reply("choose_currency", <<>>, <<>>, CurrencyButtons)
           ELSE Reply("help_ready", <<>>, <<>>, {"START_FLOW"}))
    /\ UNCHANGED SESSIONS

choose_currency_cb(c, data) ==
    LET S1 == get_session(SESSIONS, c)
        S2 == [S1 EXCEPT ![c].currency = data]
    IN  /\ conv[c] = "CURRENCY"
        /\ Offered(c, data)
        /\ CanTrack(S2, c)
        /\ SESSIONS' = [S2 EXCEPT ![c].messages = Append(@, FreshId(S2[c]))]
        /\ conv' = [conv EXCEPT ![c] = "TOTAL"]
        /\ Out(c, Say("ask_total"))

\* the session after the try block of set_total, set_gst, set_service: the field is
\* assigned as soon as float() returns, before the sign is looked at
TryFloat(s, field, t) == IF FloatRaises(t) THEN s ELSE [s EXCEPT ![field] = Float(t)]
\* the try block raised ValueError: float() did, or the value assigned is negative
FloatRejected(s, field, t) == FloatRaises(t) \/ RLt(s[field], Zero)

\* the session after the try block of set_num_people: n is checked before it is stored
TryCount(s, t) ==
    IF IntRaises(t) \/ IntOf(t) <= 0 THEN s ELSE [s EXCEPT !.num_people = IntOf(t)]
CountRejected(t) == IntRaises(t) \/ IntOf(t) <= 0

\* fault model: set_total returns GST from its except branch too
TotalNextAdvances(bad) == "GST"

\* the states the four text handlers return
TotalNext(bad) == IF bad THEN "TOTAL" ELSE "GST"
GstNext(bad) == IF bad THEN "GST" ELSE "SERVICE"
ServiceNext(bad) == IF bad THEN "SERVICE" ELSE "NUM_PEOPLE"
NumPeopleNext(bad) == IF bad THEN "NUM_PEOPLE" ELSE END

set_total(c, t) ==
    LET S1 == get_session(SESSIONS, c)
        S2 == [S1 EXCEPT ![c] = TryFloat(@, "total", t)]
        bad == FloatRejected(S2[c], "total", t)
    IN  /\ conv[c] = "TOTAL"
        /\ CanTrack(S2, c)
        /\ conv' = [conv EXCEPT ![c] = TotalNext(bad)]
        /\ Out(c, Say(IF bad THEN "invalid_total" ELSE "ask_gst"))
        /\ SESSIONS' = send_and_track(S2, c)

set_gst(c, t) ==
    LET S1 == get_session(SESSIONS, c)
        S2 == [S1 EXCEPT ![c] = TryFloat(@, "gst", t)]
        bad == FloatRejected(S2[c], "gst", t)
    IN  /\ conv[c] = "GST"
        /\ CanTrack(S2, c)
        /\ conv' = [conv EXCEPT ![c] = GstNext(bad)]
        /\ Out(c, Say(IF bad THEN "invalid_gst" ELSE "ask_service"))
        /\ SESSIONS' = send_and_track(S2, c)

set_service(c, t) ==
    LET S1 == get_session(SESSIONS, c)
        S2 == [S1 EXCEPT ![c] = TryFloat(@, "service", t)]
        bad == FloatRejected(S2[c], "service", t)
    IN  /\ conv[c] = "SERVICE"
        /\ CanTrack(S2, c)
        /\ conv' = [conv EXCEPT ![c] = ServiceNext(bad)]
        /\ Out(c, Say(IF bad THEN "invalid_service" ELSE "ask_people"))
        /\ SESSIONS' = send_and_track(S2, c)

set_num_people(c, t) ==
    LET S1 == get_session(SESSIONS, c)
        S2 == [S1 EXCEPT ![c] = TryCount(@, t)]
        bad == CountRejected(t)
    IN  /\ conv[c] = "NUM_PEOPLE"
        /\ CanTrack(S2, c)
        /\ conv' = [conv EXCEPT ![c] = NumPeopleNext(bad)]
        /\ Out(c, Say(IF bad THEN "invalid_people" ELSE "setup_complete"))
        /\ SESSIONS' = send_and_track(S2, c)

(***************************************************************************)
(* The commands that work at any time.                                     *)
(***************************************************************************)
\* a subtotal the model lets a session hold: a multiple of 1/(Grid*MaxDen) that is
\* at most (MaxAmount+1)/Grid in absolute value
InBounds(x) == RLe(RAbs(x), Rat(MaxAmount + 1, Grid)) /\ (Grid * MaxDen) % x[2] = 0

\* fault model: the commands look the session up with get_session, which creates it
NoActiveBillCreates(c) ==
    /\ Out(c, Say("no_active_bill"))
    /\ SESSIONS' = get_session(SESSIONS, c)
    /\ UNCHANGED conv

\* "No active bill": update.message.reply_text, nothing tracked, nothing created
NoActiveBill(c) ==
    /\ Out(c, Say("no_active_bill"))
    /\ UNCHANGED <<SESSIONS, conv>>

\* a reply through send_and_track after the session became s
Track(c, s, r) ==
    LET S1 == [SESSIONS EXCEPT ![c] = s]
    IN  /\ CanTrack(S1, c)
        /\ Out(c, r)
        /\ UNCHANGED conv
        /\ SESSIONS' = send_and_track(S1, c)

\* float(args[..]) raised ValueError, or the amount is negative
AmountRejected(t) == FloatRaises(t) \/ RLt(Float(t), Zero)

\* fault model: addamount assigns the amount instead of adding it to prev
AddAmountOverwrites(p, name, amount) == PSet(p, name, amount)

\* people after "Add or increment existing"
AddAmount(p, name, amount) == PSet(p, name, RAdd(PGet(p, name), amount))

addamount(c, args) ==
    IF ~HasSession(SESSIONS, c) THEN NoActiveBill(c)
    ELSE IF Len(args) < 2 THEN Track(c, SESSIONS[c], Say("usage_addamount"))
    ELSE IF AmountRejected(args[2]) THEN Track(c, SESSIONS[c], Say("invalid_amount"))
    ELSE LET s == SESSIONS[c]
             name == args[1]
             amount == Float(args[2])
             p == AddAmount(s.people, name, amount)
         IN  /\ InBounds(PGet(p, name))
             /\ Track(c, [s EXCEPT !.people = p],
                      Reply("added", <<fmt_money(s.currency, amount),
                                       fmt_money(s.currency, PGet(p, name))>>, <<>>, {}))

\* fault model: the membership test of editamount and remove_person always passes
InPeopleAlways(p, name) == TRUE

\* name in session["people"]
InPeople(p, name) == name \in Names(p)

\* people after editamount's last assignment
EditAmount(p, name, amount) == PSet(p, name, amount)

editamount(c, args) ==
    IF ~HasSession(SESSIONS, c) THEN NoActiveBill(c)
    ELSE IF Len(args) < 2 THEN Track(c, SESSIONS[c], Say("usage_editamount"))
    ELSE IF AmountRejected(args[2]) THEN Track(c, SESSIONS[c], Say("invalid_amount"))
    ELSE IF ~InPeople(SESSIONS[c].people, args[1])
    THEN Track(c, SESSIONS[c], Say("not_in_list"))
    ELSE LET s == SESSIONS[c]
             amount == Float(args[2])
         IN  Track(c, [s EXCEPT !.people = EditAmount(@, args[1], amount)],
                   Reply("updated", <<fmt_money(s.currency, amount)>>, <<>>, {}))

remove_person(c, args) ==
    IF ~HasSession(SESSIONS, c) THEN NoActiveBill(c)
    ELSE IF Len(args) < 1 THEN Track(c, SESSIONS[c], Say("usage_remove"))
    ELSE IF InPeople(SESSIONS[c].people, args[1])
    THEN Track(c, [SESSIONS[c] EXCEPT !.people = PPop(@, args[1])], Say("removed"))
    ELSE Track(c, SESSIONS[c], Say("not_found"))

\* the lines of /list: each entry with two decimals
ListLines(s) == [i \in 1..Len(s.people) |-> <<s.people[i][1], fmt_money("", s.people[i][2])>>]

list_people(c) ==
    IF ~HasSession(SESSIONS, c) THEN NoActiveBill(c)
    ELSE IF SESSIONS[c].people = <<>> THEN Track(c, SESSIONS[c], Say("no_entries"))
    ELSE Track(c, SESSIONS[c],
               Reply("entries", <<fmt_money("", SESSIONS[c].total)>>, ListLines(SESSIONS[c]), {}))

settotal(c, args) ==
    IF ~HasSession(SESSIONS, c) THEN NoActiveBill(c)
    ELSE IF Len(args) < 1 THEN Track(c, SESSIONS[c], Say("usage_settotal"))
    ELSE IF AmountRejected(args[1]) THEN Track(c, SESSIONS[c], Say("invalid_amount"))
    ELSE LET s == SESSIONS[c]
             amt == Float(args[1])
         IN  Track(c, [s EXCEPT !.total = amt],
                   Reply("total_updated", <<fmt_money(s.currency, amt)>>, <<>>, {}))

help_cmd(c) ==
    /\ Out(c, Say("help"))
    /\ UNCHANGED <<SESSIONS, conv>>

(***************************************************************************)
(* /calculate.                                                             *)
(***************************************************************************)
Hundred == FromInt(100)

\* fault model: the service charge left out of the grand total
grand_without_service(s) == RAdd(s.total, RMul(s.total, RDiv(s.gst, Hundred)))

gst_amt(s) == RMul(s.total, RDiv(s.gst, Hundred))
svc_amt(s) == RMul(s.total, RDiv(s.service, Hundred))
grand(s) == RAdd(RAdd(s.total, gst_amt(s)), svc_amt(s))
sum_custom(s) == SumRats(Amounts(s.people))

\* fault model: GST and service split evenly over the entries
tax_part_even(s, sub) ==
    RDiv(RAdd(gst_amt(s), svc_amt(s)), FromInt(Len(s.people)))

\* raw shares = subtotal + proportional tax/service
tax_part(s, sub) ==
    IF RLt(Zero, s.total)
    THEN RMul(RDiv(sub, s.total), RAdd(gst_amt(s), svc_amt(s)))
    ELSE Zero
raw(s) == [i \in 1..Len(s.people) |-> RAdd(s.people[i][2], tax_part(s, s.people[i][2]))]

\* the summary lines both breakdowns start with
Summary(s) ==
    <<fmt_money(s.currency, s.total), fmt_money(s.currency, gst_amt(s)),
      fmt_money(s.currency, svc_amt(s)), fmt_money(s.currency, grand(s))>>

\* the equal-split breakdown: the summary, then the per-person amount
EqualBreakdown(s) ==
    Reply("breakdown",
          Append(Summary(s), fmt_money(s.currency, RDiv(grand(s), FromInt(s.num_people)))),
          <<>>, {})

\* the custom breakdown: the summary, then one line per entry in insertion order
CustomBreakdown(s, final_shares) ==
    Reply("breakdown_custom", Summary(s),
          [i \in 1..Len(s.people) |-> <<s.people[i][1], fmt_money(s.currency, final_shares[i])>>],
          {})

\* the mismatch message: total, sum, difference, and the three buttons
Mismatch(s) ==
    Reply("mismatch",
          <<fmt_money(s.currency, s.total), fmt_money(s.currency, sum_custom(s)),
            fmt_money(s.currency, RSub(s.total, sum_custom(s)))>>,
          <<>>, FixButtons)

\* fault model: posting the breakdown also empties the entries
FinalizeClearsEntries(c, r, call) ==
    LET s == SESSIONS[c]
        mid == FreshId(s)
        S1 == [SESSIONS EXCEPT ![c].finalized_msg_id = mid, ![c].people = <<>>]
    IN  /\ \E fails \in SUBSET Range(S1[c].messages) :
            /\ SESSIONS' = delete_setup_messages(S1, c, {mid}, fails)
            /\ deleted' = DeleteRun(S1[c], {mid}, fails).calls
        /\ reply' = r
        /\ alloc' = call
        /\ UNCHANGED <<conv, keyboards, script>>

\* the breakdown is posted untracked, remembered as finalized_msg_id, and every
\* tracked message but it is deleted
Finalize(c, r, call) ==
    LET s == SESSIONS[c]
        mid == FreshId(s)
        S1 == [SESSIONS EXCEPT ![c].finalized_msg_id = mid]
    IN  /\ \E fails \in SUBSET Range(S1[c].messages) :
            /\ SESSIONS' = delete_setup_messages(S1, c, {mid}, fails)
            /\ deleted' = DeleteRun(S1[c], {mid}, fails).calls
        /\ reply' = r
        /\ alloc' = call
        /\ UNCHANGED <<conv, keyboards, script>>

calculate(c) ==
    IF ~HasSession(SESSIONS, c) THEN NoActiveBill(c)
    ELSE LET s == SESSIONS[c] IN
         IF s.people = <<>>
         THEN IF s.num_people <= 0
              THEN Track(c, s, Say("no_people"))
              ELSE Finalize(c, EqualBreakdown(s), NoCall)
         ELSE IF ~close_enough(sum_custom(s), s.total)
              THEN Track(c, s, Mismatch(s))
              ELSE LET final_shares == allocate_cents(raw(s), grand(s))
                   IN  Finalize(c, CustomBreakdown(s, final_shares),
                                [shares |-> raw(s), grand_total |-> grand(s),
                                 out |-> final_shares])

(***************************************************************************)
(* The mismatch resolution buttons, /delete, /reset, /stop.                *)
(***************************************************************************)
\* fault model: SCALE_FIX leaves the subtotals as they are
ScaleKeeps(s) == s.people

\* people after SCALE_FIX: every subtotal times total / sum
Scale(s) ==
    LET factor == RDiv(s.total, sum_custom(s))
    IN  [i \in 1..Len(s.people) |-> <<s.people[i][1], RMul(s.people[i][2], factor)>>]

\* fault model: only a sum of exactly zero is refused
DegenerateOnlyZero(s) == sum_custom(s) = Zero

\* sum_custom <= 0: nothing to scale from
Degenerate(s) == RLe(sum_custom(s), Zero)

\* fault model: TOTAL_TO_SUM leaves the total as it is
TotalToSumKeeps(s) == s.total

\* the total after TOTAL_TO_SUM
TotalToSum(s) == sum_custom(s)

\* registered outside the conversation: runs in every conversation state, and
\* get_session makes a session where the chat has none
mismatch_fix_cb(c, data) ==
    LET S1 == get_session(SESSIONS, c)
        s == S1[c]
    IN  /\ Offered(c, data)
        /\ UNCHANGED conv
        /\ IF data = "SCALE_FIX"
           THEN IF Degenerate(s)
                THEN SESSIONS' = S1 /\ Out(c, Say("cannot_scale"))
                ELSE /\ \A i \in 1..Len(s.people) : InBounds(Scale(s)[i][2])
                     /\ SESSIONS' = [S1 EXCEPT ![c].people = Scale(s)]
                     /\ Out(c, Say("scaled"))
           ELSE IF data = "EDIT_FIX"
           THEN SESSIONS' = S1 /\ Out(c, Say("edit"))
           ELSE /\ SESSIONS' = [S1 EXCEPT ![c].total = TotalToSum(s)]
                /\ Out(c, Reply("total_to_sum", <<fmt_money(s.currency, TotalToSum(s))>>, <<>>, {}))

\* keep of delete_cmd: the breakdown's id if there is one
Keep(s) == IF s.finalized_msg_id # None THEN {s.finalized_msg_id} ELSE {}

delete_cmd(c) ==
    IF ~HasSession(SESSIONS, c)
    THEN Out(c, NoReply) /\ UNCHANGED <<SESSIONS, conv>>
    ELSE /\ \E fails \in SUBSET Range(SESSIONS[c].messages) :
            /\ SESSIONS' = delete_setup_messages(SESSIONS, c, Keep(SESSIONS[c]), fails)
            /\ deleted' = DeleteRun(SESSIONS[c], Keep(SESSIONS[c]), fails).calls
         /\ reply' = Say("cleaned")
         /\ alloc' = NoCall
         /\ UNCHANGED <<conv, keyboards, script>>

\* the ids /reset and /stop may call delete_message with
Deletable(S, c) ==
    IF HasSession(S, c)
    THEN Range(S[c].messages) \cup ({S[c].finalized_msg_id} \ {None})
    ELSE {}

\* the deletions /reset and /stop attempt: every tracked message, then the
\* breakdown, each in a try block of its own
Cleanup(S, c, fails) ==
    IF HasSession(S, c)
    THEN DeleteRun(S[c], {}, fails).calls
            \o (IF S[c].finalized_msg_id # None
                THEN <<<<S[c].finalized_msg_id, S[c].finalized_msg_id \in fails>>>>
                ELSE <<>>)
    ELSE <<>>
\* the registry after that cleanup
Cleaned(S, c, fails) == IF HasSession(S, c) THEN delete_setup_messages(S, c, {}, fails) ELSE S

\* a plain CommandHandler: the MENU that start() returns is dropped, conv stays
reset(c) ==
    /\ \E fails \in SUBSET Deletable(SESSIONS, c) :
        /\ SESSIONS' = StartSession(Pop(Cleaned(SESSIONS, c, fails), c), c)
        /\ deleted' = Cleanup(SESSIONS, c, fails)
    /\ reply' = Reply("reset_menu", <<>>, <<>>, MenuButtons)
    /\ keyboards' = [keyboards EXCEPT ![c] = @ \cup MenuButtons]
    /\ alloc' = NoCall
    /\ UNCHANGED <<conv, script>>

stop_cmd(c) ==
    /\ \E fails \in SUBSET Deletable(SESSIONS, c) :
        /\ SESSIONS' = Pop(Cleaned(SESSIONS, c, fails), c)
        /\ deleted' = Cleanup(SESSIONS, c, fails)
    /\ reply' = Say("stopped")
    /\ alloc' = NoCall
    /\ UNCHANGED <<conv, keyboards, script>>

\* updates no handler takes: /start while a conversation runs (no allow_reentry),
\* text outside the four text states, a menu or currency button in another state
Unhandled(c, u) ==
    \/ u = "/start" /\ conv[c] # END
    \/ u = "text" /\ conv[c] \in {"MENU", "CURRENCY", END}
    \/ u \in MenuButtons /\ Offered(c, u) /\ conv[c] # "MENU"
    \/ u \in CurrencyButtons /\ Offered(c, u) /\ conv[c] # "CURRENCY"

\* what a user can send at any time besides the commands and the resolution buttons
Updates == {"/start", "text"} \cup MenuButtons \cup CurrencyButtons

unhandled(c) ==
    /\ \E u \in Updates : Unhandled(c, u)
    /\ Out(c, NoReply)
    /\ UNCHANGED <<SESSIONS, conv>>

(***************************************************************************)
(* The bot.                                                                *)
(***************************************************************************)
Init ==
    /\ SESSIONS = << >>
    /\ conv = [c \in Chats |-> END]
    /\ keyboards = [c \in Chats |-> {}]
    /\ reply = NoReply
    /\ deleted = <<>>
    /\ alloc = NoCall
    /\ script \in [Chats -> Scripts]

Next ==
    \E c \in Chats :
        \/ start(c)
        \/ \E data \in MenuButtons : main_menu_cb(c, data)
        \/ \E data \in CurrencyButtons : choose_currency_cb(c, data)
        \/ \E t \in AmountTexts : set_total(c, t)
        \/ \E t \in PercentTexts : set_gst(c, t)
        \/ \E t \in PercentTexts : set_service(c, t)
        \/ \E t \in CountTexts : set_num_people(c, t)
        \/ \E args \in NameAmountArgs(c) : addamount(c, args)
        \/ \E args \in NameAmountArgs(c) : editamount(c, args)
        \/ \E args \in NameArgs(c) : remove_person(c, args)
        \/ list_people(c)
        \/ \E args \in AmountArgs : settotal(c, args)
        \/ help_cmd(c)
        \/ calculate(c)
        \/ \E data \in FixButtons : mismatch_fix_cb(c, data)
        \/ delete_cmd(c)
        \/ reset(c)
        \/ stop_cmd(c)
        \/ unhandled(c)

Spec == Init /\ [][Next]_vars

(***************************************************************************)
(* The chats that leave the setup dialog alone: /start, then commands only. *)
(***************************************************************************)
InitEntries == Init /\ script = [c \in Chats |-> "entries"]

NextEntries ==
    \E c \in Chats :
        \/ start(c)
        \/ \E args \in NameAmountArgs(c) : addamount(c, args)
        \/ \E args \in NameAmountArgs(c) : editamount(c, args)
        \/ \E args \in NameArgs(c) : remove_person(c, args)
        \/ list_people(c)
        \/ \E args \in AmountArgs : settotal(c, args)
        \/ help_cmd(c)
        \/ calculate(c)
        \/ \E data \in FixButtons : mismatch_fix_cb(c, data)
        \/ delete_cmd(c)
        \/ reset(c)
        \/ stop_cmd(c)
        \/ unhandled(c)

SpecEntries == InitEntries /\ [][NextEntries]_vars

(***************************************************************************)
(* allocate_cents on its own, over every bounded input.                    *)
(***************************************************************************)
ShareSeqs == UNION {[1..n -> {Rat(k, Grid) : k \in 0..MaxShare}] : n \in 1..MaxLen}
GrandTotals == {Rat(k, Grid) : k \in 0..(MaxShare + 2)}

InitAlloc ==
    /\ SESSIONS = << >>
    /\ conv = [c \in Chats |-> END]
    /\ keyboards = [c \in Chats |-> {}]
    /\ reply = NoReply
    /\ deleted = <<>>
    /\ alloc \in [shares : ShareSeqs, grand_total : GrandTotals, out : {<<>>}]
    /\ script = [c \in Chats |-> "dialog"]

AllocateCents ==
    /\ alloc.out = <<>>
    /\ alloc' = [alloc EXCEPT !.out = allocate_cents(alloc.shares, alloc.grand_total)]
    /\ UNCHANGED <<SESSIONS, conv, keyboards, reply, deleted, script>>

NextAlloc == AllocateCents

SpecAlloc == InitAlloc /\ [][NextAlloc]_vars

(***************************************************************************)
(* delete_setup_messages on its own, over sessions that track several       *)
(* messages: /delete and /calculate are its two callers that keep the       *)
(* session.                                                                 *)
(***************************************************************************)
MessageIds == 1..(MaxTracked + 1)

\* message ids grow with time, and send_and_track appends: tracked ids are increasing
TrackedSeqs ==
    {m \in UNION {[1..n -> MessageIds] : n \in 0..MaxTracked} :
        \A i \in 1..(Len(m) - 1) : m[i] < m[i + 1]}

InitCleanup ==
    /\ \E m \in TrackedSeqs, f \in {None} \cup MessageIds, n \in {0, 1} :
        /\ f \notin Range(m)
        /\ SESSIONS = [c \in Chats |->
                         [NewSession EXCEPT !.messages = m, !.finalized_msg_id = f,
                                            !.num_people = n]]
    /\ conv = [c \in Chats |-> END]
    /\ keyboards = [c \in Chats |-> {}]
    /\ reply = NoReply
    /\ deleted = <<>>
    /\ alloc = NoCall
    /\ script = [c \in Chats |-> "entries"]

NextCleanup ==
    \E c \in Chats :
        \/ delete_cmd(c)
        \/ calculate(c)

SpecCleanup == InitCleanup /\ [][NextCleanup]_vars

(***************************************************************************)
(* /calculate on its own, over bills of everyday size: the figures of the   *)
(* setup dialog and the entries are drawn, then /calculate runs.            *)
(***************************************************************************)
BillTotals == {0, 50, 100}
BillGst == {0, 9}
BillService == {0, 10}
BillCounts == {0, 1, 3, 4}
BillEntries ==
    {<<>>,
     <<<<"Alice", FromInt(60)>>, <<"Bob", FromInt(40)>>>>,
     <<<<"Bob", FromInt(40)>>, <<"Alice", FromInt(60)>>>>,
     <<<<"Alice", FromInt(50)>>>>,
     <<<<"Alice", Zero>>>>}

InitBills ==
    /\ \E tot \in BillTotals, g \in BillGst, sv \in BillService, n \in BillCounts,
          p \in BillEntries :
        SESSIONS = [c \in Chats |->
                      [NewSession EXCEPT !.total = FromInt(tot), !.gst = FromInt(g),
                                         !.service = FromInt(sv), !.num_people = n,
                                         !.people = p]]
    /\ conv = [c \in Chats |-> END]
    /\ keyboards = [c \in Chats |-> {}]
    /\ reply = NoReply
    /\ deleted = <<>>
    /\ alloc = NoCall
    /\ script = [c \in Chats |-> "entries"]

NextBills == \E c \in Chats : calculate(c)

SpecBills == InitBills /\ [][NextBills]_vars

(***************************************************************************)
(* Properties.                                                             *)
(***************************************************************************)
\* an amount of the allocator's output, in cents
Cents(x) == Round(RMul(x, Hundred))
\* the remainder allocate_cents computes for a call
Remainder(call) ==
    Round(RMul(call.grand_total, Hundred))
        - SumInts([i \in 1..Len(call.shares) |-> Floor(RMul(call.shares[i], Hundred))])

\* the bill a session describes: everything in it but the message bookkeeping
Bill(s) ==
    [currency |-> s.currency, total |-> s.total, gst |-> s.gst, service |-> s.service,
     num_people |-> s.num_people, people |-> s.people]

\* the four states that read a typed text, and every text the model types
TextStates == {"TOTAL", "GST", "SERVICE", "NUM_PEOPLE"}
SetupTexts == AmountTexts \cup PercentTexts \cup CountTexts

\* a text that is not what the state asks for: not a number or a negative one for
\* an amount or a percentage; not an integer, or one below 1, for the count
FailsValidation(st, t) ==
    IF st = "NUM_PEOPLE"
    THEN t.kind # "int" \/ t.val <= 0
    ELSE t.kind = "word" \/ t.val < 0

\* a text that is a non-negative number
ValidAmount(t) == t.kind # "word" /\ t.val >= 0

\* the text handler of the chat's state takes the text t
SetupInput(c, t) ==
    \/ set_total(c, t)
    \/ set_gst(c, t)
    \/ set_service(c, t)
    \/ set_num_people(c, t)

\* the order of the setup dialog
Succ(st) ==
    CASE st = "MENU" -> "CURRENCY"
      [] st = "CURRENCY" -> "TOTAL"
      [] st = "TOTAL" -> "GST"
      [] st = "GST" -> "SERVICE"
      [] st = "SERVICE" -> "NUM_PEOPLE"
      [] st = "NUM_PEOPLE" -> END
      [] OTHER -> "MENU"

\* the handler of state st accepts what it was given
Accepted(c, st) ==
    CASE st = "MENU" -> main_menu_cb(c, "START_FLOW")
      [] st = "CURRENCY" -> \E data \in CurrencyButtons : choose_currency_cb(c, data)
      [] st \in TextStates -> \E t \in SetupTexts : ~FailsValidation(st, t) /\ SetupInput(c, t)
      [] OTHER -> start(c)

(* C1.  Allocation exactness: for every non-empty sequence of non-negative raw   *)
(* shares and every non-negative grand total, the amounts allocate_cents returns *)
(* sum, in integer cents, exactly to round(grand_total * 100).                   *)
C1_AllocationExact ==
    alloc.out # <<>> =>
        SumInts([i \in 1..Len(alloc.out) |-> Cents(alloc.out[i])])
            = Round(RMul(alloc.grand_total, Hundred))

\* one share of 0.00 and a grand total of 3/128 (2 cents): the remainder is 2, the
\* loop stops after the only share, and 1 cent comes back
C1_RemainderLeftOver ==
    /\ alloc.shares = <<Zero>>
    /\ alloc.grand_total = Rat(3, Grid)
    /\ alloc.out = <<Rat(1, 100)>>

(* C2.  Whenever /calculate succeeds with custom amounts (at least one entry and *)
(* |total - sum of entries| <= 0.01), the per-person amounts of the breakdown    *)
(* sum in cents exactly to the rounded grand total; equivalently the remainder   *)
(* handed to the allocator is never negative and never more than the entries.    *)
C2_ItemizedBreakdownSumsToGrand ==
    reply.kind = "breakdown_custom" =>
        /\ SumInts([i \in 1..Len(reply.people) |-> reply.people[i][2][2]]) = reply.money[4][2]
        /\ Remainder(alloc) \in 0..Len(alloc.shares)

\* a breakdown of a session with no negative figure in it whose lines sum to more
\* than its grand total: the remainder was negative
C2_BreakdownOverGrand ==
    /\ reply.kind = "breakdown_custom"
    /\ Remainder(alloc) < 0
    /\ SumInts([i \in 1..Len(reply.people) |-> reply.people[i][2][2]]) > reply.money[4][2]
    /\ \A c \in DOMAIN SESSIONS :
        /\ RLe(Zero, SESSIONS[c].total)
        /\ RLe(Zero, SESSIONS[c].gst)
        /\ RLe(Zero, SESSIONS[c].service)
        /\ \A i \in 1..Len(SESSIONS[c].people) : RLe(Zero, SESSIONS[c].people[i][2])

(* C3.  In the states TOTAL, GST, SERVICE and NUM_PEOPLE a text that fails       *)
(* validation (not a number, a negative amount or percentage, a count that is    *)
(* not a positive integer) leaves the session's currency, total, gst, service,   *)
(* num_people and people exactly as they were.                                   *)
C3_InvalidSetupInputKeepsBill ==
    [][\A c \in Chats : \A t \in SetupTexts :
        (/\ HasSession(SESSIONS, c)
         /\ conv[c] \in TextStates
         /\ FailsValidation(conv[c], t)
         /\ SetupInput(c, t))
        => Bill(SESSIONS'[c]) = Bill(SESSIONS[c])]_vars

\* the total prompt answered with -1/128: the bot says the total is invalid, and
\* the session holds the negative total
C3_NegativeTotalStored ==
    /\ reply.kind = "invalid_total"
    /\ \E c \in DOMAIN SESSIONS : conv[c] = "TOTAL" /\ SESSIONS[c].total = Rat(-1, Grid)

(* C4.  In every reachable state of every session total >= 0, gst >= 0 and      *)
(* service >= 0, whatever setup texts, commands, resolution buttons, /reset and  *)
(* /stop came before.                                                            *)
C4_TotalAndRatesNonNegative ==
    \A c \in DOMAIN SESSIONS :
        /\ RLe(Zero, SESSIONS[c].total)
        /\ RLe(Zero, SESSIONS[c].gst)
        /\ RLe(Zero, SESSIONS[c].service)

\* a session whose service percentage is negative, after other updates were handled
C4_NegativeRateKept ==
    /\ reply.kind # "invalid_service"
    /\ \E c \in DOMAIN SESSIONS : RLt(SESSIONS[c].service, Zero)

(* C5.  In every reachable state every entry's subtotal is >= 0, whatever setup  *)
(* texts, /addamount, /editamount, /remove, /settotal and Scale or AdoptSum      *)
(* resolutions came before.                                                      *)
C5_EntriesNonNegative ==
    \A c \in DOMAIN SESSIONS :
        \A i \in 1..Len(SESSIONS[c].people) : RLe(Zero, SESSIONS[c].people[i][2])

\* the Scale button pressed over a negative total: an entry below zero
C5_ScaledBelowZero ==
    /\ reply.kind = "scaled"
    /\ \E c \in DOMAIN SESSIONS :
        \E i \in 1..Len(SESSIONS[c].people) : RLt(SESSIONS[c].people[i][2], Zero)

(* C6.  The conversation never advances on invalid input: in TOTAL, GST, SERVICE *)
(* and NUM_PEOPLE a text that fails validation leaves the conversation in the    *)
(* same state, and the state changes only when a valid text is taken, to the     *)
(* next state of the dialog.                                                     *)
C6_NeverAdvancesOnInvalidInput ==
    [][\A c \in Chats :
        /\ \A t \in SetupTexts :
            (conv[c] \in TextStates /\ FailsValidation(conv[c], t) /\ SetupInput(c, t))
            => conv'[c] = conv[c]
        /\ (conv[c] \in TextStates /\ conv'[c] # conv[c])
            => /\ conv'[c] = Succ(conv[c])
               /\ \E t \in SetupTexts : ~FailsValidation(conv[c], t) /\ SetupInput(c, t)]_vars

\* a rejected percentage: the bot asks again and the conversation is still in GST
C6_StaysAfterInvalidGst ==
    /\ reply.kind = "invalid_gst"
    /\ \E c \in Chats : conv[c] = "GST"

(* C7.  The setup states are visited only in the order MENU, CURRENCY, TOTAL,    *)
(* GST, SERVICE, NUM_PEOPLE, END: every change of state goes to the next state   *)
(* of that order and is made by the handler of the state left accepting its      *)
(* input (so END is reached only after a currency, a total, a gst, a service and *)
(* a count were accepted in that order), and the help choice stays in MENU.      *)
C7_SetupOrder ==
    [][\A c \in Chats :
        /\ conv'[c] # conv[c] => conv'[c] = Succ(conv[c]) /\ Accepted(c, conv[c])
        /\ main_menu_cb(c, "HELP_FLOW") => conv'[c] = "MENU"]_vars

\* the count was accepted and the conversation ended
C7_SetupCompleted ==
    /\ reply.kind = "setup_complete"
    /\ \E c \in DOMAIN SESSIONS : conv[c] = END /\ SESSIONS[c].num_people >= 1

(* C8.  /calculate with at least one entry posts a breakdown and sets            *)
(* finalized_msg_id if and only if |total - sum of entries| <= 0.01; otherwise   *)
(* it is refused: no breakdown, finalized_msg_id, total and entries unchanged,   *)
(* and the three resolution buttons offered.                                     *)
C8_FinalizeIffBalanced ==
    [][\A c \in Chats :
        (HasSession(SESSIONS, c) /\ SESSIONS[c].people # <<>> /\ calculate(c)) =>
            LET s == SESSIONS[c]
                s2 == SESSIONS'[c]
                off == RSub(s.total, SumRats([i \in 1..Len(s.people) |-> s.people[i][2]]))
            IN  IF RLe(off, Rat(1, 100)) /\ RLe(Rat(-1, 100), off)
                THEN /\ reply'.kind = "breakdown_custom"
                     /\ s2.finalized_msg_id \notin {None, s.finalized_msg_id}
                ELSE /\ reply'.kind = "mismatch"
                     /\ reply'.buttons = FixButtons
                     /\ FixButtons \subseteq keyboards'[c]
                     /\ s2.finalized_msg_id = s.finalized_msg_id
                     /\ s2.total = s.total
                     /\ s2.people = s.people]_vars

\* refused after an earlier breakdown: the mismatch message, the marker still set
C8_RefusedAfterBreakdown ==
    /\ reply.kind = "mismatch"
    /\ \E c \in DOMAIN SESSIONS : SESSIONS[c].finalized_msg_id # None

(* C9.  /addamount is additive and /editamount overwrites: adding a for a name   *)
(* that holds s leaves it holding s + a, adding for an absent name creates it    *)
(* with a, replacing the amount of an existing name with b leaves it holding     *)
(* exactly b; no other entry changes.                                            *)
C9_AddIsAdditiveEditOverwrites ==
    [][\A c \in Chats : \A name \in PersonNames(c) : \A t \in AmountTexts :
        (HasSession(SESSIONS, c) /\ ValidAmount(t)) =>
            LET p == SESSIONS[c].people
                p2 == SESSIONS'[c].people
                held == IF name \in Names(p) THEN PGet(p, name) ELSE Zero
                OthersKept == \A other \in Names(p) \ {name} :
                                  other \in Names(p2) /\ PGet(p2, other) = PGet(p, other)
            IN  /\ addamount(c, <<name, t>>) =>
                    /\ Names(p2) = Names(p) \cup {name}
                    /\ PGet(p2, name) = RAdd(held, Float(t))
                    /\ OthersKept
                /\ (name \in Names(p) /\ editamount(c, <<name, t>>)) =>
                    /\ Names(p2) = Names(p)
                    /\ PGet(p2, name) = Float(t)
                    /\ OthersKept]_vars

\* an amount added on top of what Alice held: she now holds 2/128
C9_AddedOnTop ==
    /\ reply.kind = "added"
    /\ reply.money[1][2] = 1
    /\ \E c \in DOMAIN SESSIONS : PGet(SESSIONS[c].people, "Alice") = Rat(2, Grid)

(* C10.  /editamount and /remove for a name that is not among the entries fail   *)
(* (the name is reported as not in the list, not found) and leave the entries,   *)
(* the total, the rates and the count unchanged; /editamount never creates an    *)
(* entry.                                                                        *)
C10_UnknownNameChangesNothing ==
    [][\A c \in Chats : \A name \in PersonNames(c) :
        (HasSession(SESSIONS, c) /\ name \notin Names(SESSIONS[c].people)) =>
            /\ \A t \in AmountTexts :
                editamount(c, <<name, t>>) =>
                    /\ reply'.kind = IF ValidAmount(t) THEN "not_in_list" ELSE "invalid_amount"
                    /\ Bill(SESSIONS'[c]) = Bill(SESSIONS[c])
            /\ remove_person(c, <<name>>) =>
                    /\ reply'.kind = "not_found"
                    /\ Bill(SESSIONS'[c]) = Bill(SESSIONS[c])]_vars

\* an edit for a name the session does not hold was answered, and no entry exists
C10_EditOfUnknownName ==
    /\ reply.kind = "not_in_list"
    /\ \E c \in DOMAIN SESSIONS : SESSIONS[c].people = <<>>

\* the sum of a session's entries, and the balance test in the claim's words
EntrySum(s) == SumRats([i \in 1..Len(s.people) |-> s.people[i][2]])
Balanced(s) ==
    LET off == RSub(s.total, EntrySum(s))
    IN  RLe(off, Rat(1, 100)) /\ RLe(Rat(-1, 100), off)

(* C11.  Scale resolution correctness: when the entries sum to more than 0, the  *)
(* Scale button leaves them summing to the declared total within 0.01 (so the    *)
(* session is balanced and has entries, and the next /calculate is not refused   *)
(* as mismatched), keeps the names, and leaves the declared total as it was.     *)
C11_ScaleMatchesTotal ==
    [][\A c \in Chats :
        (/\ HasSession(SESSIONS, c)
         /\ RLt(Zero, EntrySum(SESSIONS[c]))
         /\ mismatch_fix_cb(c, "SCALE_FIX"))
        => /\ reply'.kind = "scaled"
           /\ Balanced(SESSIONS'[c])
           /\ SESSIONS'[c].total = SESSIONS[c].total
           /\ Names(SESSIONS'[c].people) = Names(SESSIONS[c].people)
           /\ SESSIONS'[c].people # <<>>]_vars

\* two entries scaled onto a total of 1/128: Alice holds all of it, Bob nothing
C11_ScaledOntoTotal ==
    /\ reply.kind = "scaled"
    /\ \E c \in DOMAIN SESSIONS :
        /\ SESSIONS[c].total = Rat(1, Grid)
        /\ SESSIONS[c].people = <<<<"Alice", Rat(1, Grid)>>, <<"Bob", Zero>>>>

(* C12.  The Scale button pressed while the entries sum to 0 or less, or while   *)
(* there are none, is refused (the bot answers that it cannot scale) and leaves  *)
(* every entry and the declared total unchanged.                                 *)
C12_DegenerateScaleChangesNothing ==
    [][\A c \in Chats :
        LET had == HasSession(SESSIONS, c)
            p == IF had THEN SESSIONS[c].people ELSE <<>>
        IN  (/\ RLe(SumRats([i \in 1..Len(p) |-> p[i][2]]), Zero)
             /\ mismatch_fix_cb(c, "SCALE_FIX"))
            => /\ reply'.kind = "cannot_scale"
               /\ SESSIONS'[c].people = p
               /\ had => Bill(SESSIONS'[c]) = Bill(SESSIONS[c])]_vars

\* refused over an entry of 0.00 while the declared total is not 0
C12_RefusedOverZeroEntry ==
    /\ reply.kind = "cannot_scale"
    /\ \E c \in DOMAIN SESSIONS :
        /\ SESSIONS[c].people = <<<<"Alice", Zero>>>>
        /\ SESSIONS[c].total = Rat(1, Grid)

(* C13.  The AdoptSum button sets the declared total to the current sum of the   *)
(* entries and changes no entry; the session it leaves is balanced, so a balance *)
(* check made next finds no mismatch.                                            *)
C13_AdoptSumBalances ==
    [][\A c \in Chats :
        (HasSession(SESSIONS, c) /\ mismatch_fix_cb(c, "TOTAL_TO_SUM"))
        => /\ SESSIONS'[c].total = EntrySum(SESSIONS[c])
           /\ SESSIONS'[c].people = SESSIONS[c].people
           /\ Balanced(SESSIONS'[c])
           /\ [SESSIONS'[c] EXCEPT !.total = SESSIONS[c].total] = SESSIONS[c]]_vars

\* the total became the sum of Alice's 2/128, which no typed total reaches
C13_TotalAdopted ==
    /\ reply.kind = "total_to_sum"
    /\ reply.money = <<<<"SGD", 2>>>>
    /\ \E c \in DOMAIN SESSIONS :
        /\ SESSIONS[c].total = Rat(2, Grid)
        /\ SESSIONS[c].people = <<<<"Alice", Rat(2, Grid)>>>>

\* one of the six commands that need a session runs in chat c
SessionCommand(c) ==
    \/ \E args \in NameAmountArgs(c) : addamount(c, args)
    \/ \E args \in NameAmountArgs(c) : editamount(c, args)
    \/ \E args \in NameArgs(c) : remove_person(c, args)
    \/ list_people(c)
    \/ \E args \in AmountArgs : settotal(c, args)
    \/ calculate(c)

(* C14.  /addamount, /editamount, /remove, /list, /settotal and /calculate sent  *)
(* to a chat that has no session answer "No active bill", create no session for  *)
(* the chat and change nothing in the session registry.                          *)
C14_NoSessionNoChange ==
    [][\A c \in Chats :
        (~HasSession(SESSIONS, c) /\ SessionCommand(c))
        => /\ reply'.kind = "no_active_bill"
           /\ ~HasSession(SESSIONS', c)
           /\ SESSIONS' = SESSIONS]_vars

\* after /stop took the session of a chat that had seen a mismatch, a command was
\* answered with "No active bill" and the registry is still empty
C14_RefusedAfterStop ==
    /\ reply.kind = "no_active_bill"
    /\ SESSIONS = << >>
    /\ \E c \in Chats : FixButtons \subseteq keyboards[c]

\* the ids of a sequence of delete_message calls
CalledIds(calls) == [i \in 1..Len(calls) |-> calls[i][1]]

(* C15.  Batch cleanup is partial-failure tolerant: when delete_setup_messages   *)
(* runs (from /delete, or from a /calculate that posts a breakdown), a deletion  *)
(* is attempted for every tracked id not in the keep set, in order, whichever    *)
(* of the deletions fail, and afterwards the tracked ids are exactly the ids     *)
(* tracked before that are in the keep set.                                      *)
C15_CleanupAttemptsEveryId ==
    [][\A c \in Chats :
        (/\ HasSession(SESSIONS, c)
         /\ \/ delete_cmd(c)
            \/ calculate(c) /\ reply'.kind \in {"breakdown", "breakdown_custom"})
        => LET tracked == SESSIONS[c].messages
               keep_ids == {SESSIONS'[c].finalized_msg_id} \ {None}
           IN  /\ CalledIds(deleted') = SelectSeq(tracked, LAMBDA mid : mid \notin keep_ids)
               /\ SESSIONS'[c].messages = SelectSeq(tracked, LAMBDA mid : mid \in keep_ids)]_vars

\* /delete over three tracked messages: the first and the third deletion failed, all
\* three were attempted, and nothing is tracked any more
C15_FailedDeletionsPassedOver ==
    /\ reply.kind = "cleaned"
    /\ deleted = <<<<1, TRUE>>, <<2, FALSE>>, <<3, TRUE>>>>
    /\ \E c \in DOMAIN SESSIONS : SESSIONS[c].messages = <<>>

\* the whole cents of a raw share, and the cents the allocator put on top of them
FloorCents(x) == Floor(RMul(x, Hundred))
Extra(call, i) == Cents(call.out[i]) - FloorCents(call.shares[i])

(* C16.  Each amount allocate_cents returns is the floor of the corresponding    *)
(* share in cents plus 0 or 1 cent, never less and never more, and the output    *)
(* has the length and the order of the input.                                    *)
C16_FloorPlusAtMostOneCent ==
    alloc.out # <<>> =>
        /\ Len(alloc.out) = Len(alloc.shares)
        /\ \A i \in 1..Len(alloc.shares) : Extra(alloc, i) \in {0, 1}

\* two shares of 0.00 and a grand total of 1 cent: one cent on the first share,
\* none on the second
C16_OneCentOnTop ==
    /\ alloc.shares = <<Zero, Zero>>
    /\ alloc.grand_total = Rat(1, Grid)
    /\ alloc.out = <<Rat(1, 100), Zero>>

(* C17.  The extra cents go to a prefix of the input: with r the remainder, the  *)
(* rounded grand total minus the sum of the floored cents, an entry receives one *)
(* extra cent exactly if it is among the first r, so no entry receives an extra  *)
(* cent while an earlier entry does not.                                         *)
C17_ExtraCentsToPrefix ==
    alloc.out # <<>> =>
        /\ \A i \in 1..Len(alloc.out) :
            Extra(alloc, i) = IF i <= Remainder(alloc) THEN 1 ELSE 0
        /\ \A i, j \in 1..Len(alloc.out) : (i < j /\ Extra(alloc, j) > 0) => Extra(alloc, i) > 0

\* shares 3/128 and 1/128 (2.34 and 0.78 cents) with a grand total of 3 cents: the
\* one extra cent goes to the first share, not to the larger fraction
C17_FirstNotLargestFraction ==
    /\ alloc.shares = <<Rat(3, Grid), Rat(1, Grid)>>
    /\ alloc.grand_total = Rat(4, Grid)
    /\ alloc.out = <<Rat(3, 100), Zero>>

\* the grand total of a session in the claims' words
GrandOf(s) ==
    RAdd(RAdd(s.total, RDiv(RMul(s.total, s.gst), Hundred)),
         RDiv(RMul(s.total, s.service), Hundred))

(* C18.  /calculate with no entries and a count n >= 1 reports the grand total   *)
(* total + total*gst/100 + total*service/100 and per person grand / n (for       *)
(* total 50, gst 0, service 10, n 4: 55.00 and 13.75) and sets the finalized     *)
(* marker; with n <= 0 it is refused and the marker stays as it was.             *)
C18_EqualSplit ==
    [][\A c \in Chats :
        (HasSession(SESSIONS, c) /\ SESSIONS[c].people = <<>> /\ calculate(c)) =>
            LET s == SESSIONS[c]
                s2 == SESSIONS'[c]
                n == s.num_people
            IN  IF n >= 1
                THEN /\ reply'.kind = "breakdown"
                     /\ reply'.money[4] = <<s.currency, Cents(GrandOf(s))>>
                     /\ reply'.money[5] = <<s.currency, Cents(RDiv(GrandOf(s), FromInt(n)))>>
                     /\ s2.finalized_msg_id \notin {None, s.finalized_msg_id}
                     /\ (s.total = FromInt(50) /\ s.gst = Zero /\ s.service = FromInt(10) /\ n = 4)
                            => reply'.money[4][2] = 5500 /\ reply'.money[5][2] = 1375
                ELSE /\ reply'.kind = "no_people"
                     /\ s2.finalized_msg_id = s.finalized_msg_id
                     /\ Bill(s2) = Bill(s)]_vars

\* the example of the specification: 50.00, no GST, 5.00 service, 55.00, 13.75 each
C18_EqualSplitExample ==
    /\ reply.kind = "breakdown"
    /\ reply.money = <<<<"SGD", 5000>>, <<"SGD", 0>>, <<"SGD", 500>>, <<"SGD", 5500>>,
                       <<"SGD", 1375>>>>
    /\ \E c \in DOMAIN SESSIONS :
        SESSIONS[c].num_people = 4 /\ SESSIONS[c].finalized_msg_id # None

(* C19.  In an itemized /calculate the raw share of each entry is                *)
(* sub + (sub/total)*(gstAmount + serviceAmount) when total > 0 and sub when     *)
(* total = 0, and the amounts reported are allocate_cents' output over those     *)
(* shares and the grand total, one line per entry in insertion order (total 100, *)
(* gst 9, service 10, Alice 60 then Bob 40: Alice 71.40, Bob 47.60).             *)
C19_ItemizedShares ==
    [][\A c \in Chats :
        (/\ HasSession(SESSIONS, c)
         /\ SESSIONS[c].people # <<>>
         /\ calculate(c)
         /\ reply'.kind = "breakdown_custom") =>
            LET s == SESSIONS[c]
                p == s.people
                taxes == RAdd(RDiv(RMul(s.total, s.gst), Hundred),
                              RDiv(RMul(s.total, s.service), Hundred))
                share(sub) == IF RLt(Zero, s.total)
                              THEN RAdd(sub, RMul(RDiv(sub, s.total), taxes))
                              ELSE sub
            IN  /\ alloc'.shares = [i \in 1..Len(p) |-> share(p[i][2])]
                /\ alloc'.grand_total = GrandOf(s)
                /\ alloc'.out = allocate_cents(alloc'.shares, alloc'.grand_total)
                /\ reply'.people =
                     [i \in 1..Len(p) |-> <<p[i][1], <<s.currency, Cents(alloc'.out[i])>>>>]
                /\ (s.total = FromInt(100) /\ s.gst = FromInt(9) /\ s.service = FromInt(10)
                        /\ p = <<<<"Alice", FromInt(60)>>, <<"Bob", FromInt(40)>>>>)
                    => reply'.people = <<<<"Alice", <<s.currency, 7140>>>>,
                                         <<"Bob", <<s.currency, 4760>>>>>>]_vars

\* the example of the specification: grand total 119.00, Alice 71.40 then Bob 47.60
C19_ItemizedExample ==
    /\ reply.kind = "breakdown_custom"
    /\ reply.money[4] = <<"SGD", 11900>>
    /\ reply.people = <<<<"Alice", <<"SGD", 7140>>>>, <<"Bob", <<"SGD", 4760>>>>>>
    /\ alloc.shares = <<Rat(714, 10), Rat(476, 10)>>

(* C20.  After /reset, from any conversation state, after a finished setup too,  *)
(* the session equals a newly created one (default currency, total 0, rates 0,   *)
(* count 0, no entries, no finalized marker) and the conversation is in MENU, so *)
(* that the Start button of the menu it shows is handled and leads to CURRENCY.  *)
C20_ResetReturnsToMenu ==
    [][\A c \in Chats :
        reset(c) =>
            /\ HasSession(SESSIONS', c)
            /\ Bill(SESSIONS'[c]) = Bill(NewSession)
            /\ SESSIONS'[c].finalized_msg_id = None
            /\ conv'[c] = "MENU"
            /\ ~Unhandled(c, "START_FLOW")']_vars

\* /reset after a finished setup: the session is fresh and the menu is shown, but
\* no conversation is running and the Start button under the menu is taken by no
\* handler
C20_ResetOutsideMenu ==
    /\ reply.kind = "reset_menu"
    /\ \E c \in DOMAIN SESSIONS :
        /\ Bill(SESSIONS[c]) = Bill(NewSession)
        /\ CurrencyButtons \subseteq keyboards[c]
        /\ conv[c] = END
        /\ Unhandled(c, "START_FLOW")

\* a setup text, a menu or currency button, or a resolution button is handled in chat c
DialogOrButton(c) ==
    \/ \E t \in SetupTexts : SetupInput(c, t)
    \/ \E data \in MenuButtons : main_menu_cb(c, data)
    \/ \E data \in CurrencyButtons : choose_currency_cb(c, data)
    \/ \E data \in FixButtons : mismatch_fix_cb(c, data)

(* C21.  Once /stop has discarded the session of a chat, the chat has no session *)
(* until the next /start or /reset: a session comes into being only through      *)
(* /start or /reset, and no setup text, menu or currency button or resolution    *)
(* button (Scale, Edit, AdoptSum) handled meanwhile creates one.                 *)
C21_NoSessionUntilStartOrReset ==
    [][\A c \in Chats :
        ~HasSession(SESSIONS, c) =>
            /\ HasSession(SESSIONS', c) => (start(c) \/ reset(c))
            /\ DialogOrButton(c) => ~HasSession(SESSIONS', c)]_vars

\* the state that /stop followed by the Edit button leaves: no conversation runs,
\* the button was answered, and the chat has a session again, a default one that
\* holds not even the id of a menu message
C21_SessionBackAfterButton ==
    /\ reply.kind = "edit"
    /\ \E c \in DOMAIN SESSIONS :
        /\ conv[c] = END
        /\ SESSIONS[c] = NewSession

\* /calculate in chat c posts a breakdown
Finalizes(c) == reply'.kind \in {"breakdown", "breakdown_custom"} /\ calculate(c)

\* /delete runs over a session, /reset runs, /stop runs (each told by its answer first)
Deletes(c) == reply'.kind = "cleaned" /\ delete_cmd(c)
ResetsOrStops(c) ==
    \/ reply'.kind = "reset_menu" /\ reset(c)
    \/ reply'.kind = "stopped" /\ stop_cmd(c)

(* C22.  The finalized message id is preserved across cleanup: /delete leaves    *)
(* finalized_msg_id as it was, the cleanup at the end of a /calculate that posts *)
(* a breakdown leaves the id of that breakdown in place, and neither calls       *)
(* delete_message for the breakdown, the new one or the one before; the          *)
(* breakdown is deleted by /reset and /stop, and only by them.                   *)
C22_BreakdownKeptByCleanup ==
    [][\A c \in Chats :
        HasSession(SESSIONS, c) =>
            LET fid == SESSIONS[c].finalized_msg_id
                called == Range(CalledIds(deleted'))
            IN  /\ Deletes(c) =>
                    /\ SESSIONS'[c].finalized_msg_id = fid
                    /\ fid \notin called
                /\ Finalizes(c) =>
                    /\ SESSIONS'[c].finalized_msg_id # None
                    /\ SESSIONS'[c].finalized_msg_id \notin called
                    /\ fid \notin called
                /\ (fid # None /\ fid \in called) => ResetsOrStops(c)
                /\ (fid # None /\ ResetsOrStops(c)) => fid \in called]_vars

\* /delete after a breakdown: a tracked message was deleted, the breakdown's id is
\* still in the session and was not among the deletions
C22_CleanedRoundBreakdown ==
    /\ reply.kind = "cleaned"
    /\ deleted # <<>>
    /\ \E c \in DOMAIN SESSIONS :
        /\ SESSIONS[c].finalized_msg_id # None
        /\ SESSIONS[c].finalized_msg_id \notin Range(CalledIds(deleted))
        /\ SESSIONS[c].messages = <<>>

\* the last update handled was a /calculate that posted a breakdown
JustFinalized == reply.kind \in {"breakdown", "breakdown_custom"}

(* C23.  A /calculate that posts a breakdown leaves currency, total, gst,        *)
(* service, num_people and every entry unchanged, so a /calculate that follows   *)
(* it with nothing in between posts the same breakdown again: the same grand     *)
(* total and the same per-person amounts.                                        *)
C23_FinalizeKeepsBill ==
    [][\A c \in Chats :
        (HasSession(SESSIONS, c) /\ Finalizes(c)) =>
            /\ Bill(SESSIONS'[c]) = Bill(SESSIONS[c])
            /\ JustFinalized => reply' = reply]_vars

\* the itemized example finalized for the second time in a row: the entries are
\* still there and the lines are those of the first breakdown
C23_FinalizedTwice ==
    /\ reply.kind = "breakdown_custom"
    /\ reply.money[4] = <<"SGD", 11900>>
    /\ reply.people = <<<<"Alice", <<"SGD", 7140>>>>, <<"Bob", <<"SGD", 4760>>>>>>
    /\ \E c \in DOMAIN SESSIONS :
        /\ SESSIONS[c].finalized_msg_id = 2
        /\ SESSIONS[c].people = <<<<"Alice", FromInt(60)>>, <<"Bob", FromInt(40)>>>>

=============================================================================
